---- MODULE Spec2Model ----
(***************************************************************************)
(* Model of src-tauri/split_engine.py: the header harvester                *)
(* (extract_imports), the section extractor (extract_section), the file    *)
(* primitives (read_file, write_file) and the orchestrator (main).         *)
(*                                                                         *)
(* Python strings are modelled as sequences of one-character strings, so   *)
(* that split, join, strip, startswith and the substring test are computed *)
(* character by character, as the interpreter computes them.               *)
(***************************************************************************)
EXTENDS Integers, Sequences, FiniteSets, TLC

VARIABLES
    pc,             \* position of the running function / of main
    content,        \* the text handed to the function; main's local `content`
    start_marker,   \* extract_section's start_marker argument
    end_marker,     \* extract_section's end_marker argument (None allowed)
    section,        \* extract_section's return value; main's `worker_section`
    imports,        \* extract_imports' return value
    reharvested,    \* extract_imports applied to its own return value
    engine_rs,      \* file system: stored text of src/ffui_core/engine.rs,
                    \* or Absent, or NotUtf8
    engine_dir,     \* file system: does the directory src/ffui_core/engine exist
    mod_rs,         \* file system: lines of engine/mod.rs, or Absent
    writable,       \* file system: can engine/ be created and mod.rs be written
    common_imports, \* main's local `common_imports`
    mod_content,    \* main's local `mod_content`
    stdout,         \* the lines main has printed in the current run
    steps,          \* the calls main has made in the current run, in order
    runs            \* number of completed or aborted runs of main so far

vars == <<pc, content, start_marker, end_marker, section, imports, reharvested,
          engine_rs, engine_dir, mod_rs, writable, common_imports, mod_content,
          stdout, steps, runs>>

(***************************************************************************)
(* Bounds of the model.                                                    *)
(***************************************************************************)
MaxLines == 3       \* documents have 1..MaxLines lines
MaxRuns == 2        \* main is run at most MaxRuns times in a row

(***************************************************************************)
(* Values that are not text.                                               *)
(***************************************************************************)
None == <<"None">>          \* Python's None
Absent == <<"Absent">>      \* a path that names no file
NotUtf8 == <<"NotUtf8">>    \* a file whose bytes are not UTF-8 text
Truncated == "<cut>"        \* the written part of a line cut short
Unset == <<"Unset">>        \* a local or return value not assigned yet

(***************************************************************************)
(* Python string primitives.                                               *)
(***************************************************************************)
NL == <<"\n">>

\* The characters str.strip() removes when called with no argument: the 29
\* characters for which str.isspace() holds.  A character the lexer does not
\* take inside a string (U+2000 and above) is written as its Python escape.
Whitespace ==
    { "\t",         \* U+0009 tab
      "\n",         \* U+000A line feed
      "",          \* U+000B vertical tab
      "\f",         \* U+000C form feed
      "\r",         \* U+000D carriage return
      "",          \* U+001C file separator
      "",          \* U+001D group separator
      "",          \* U+001E record separator
      "",          \* U+001F unit separator
      " ",          \* U+0020 space
      "",          \* U+0085 next line
      " ",          \* U+00A0 no-break space
      " ",          \* U+1680 ogham space mark
      "\\u2000",    \* U+2000 en quad
      "\\u2001",    \* U+2001 em quad
      "\\u2002",    \* U+2002 en space
      "\\u2003",    \* U+2003 em space
      "\\u2004",    \* U+2004 three-per-em space
      "\\u2005",    \* U+2005 four-per-em space
      "\\u2006",    \* U+2006 six-per-em space
      "\\u2007",    \* U+2007 figure space
      "\\u2008",    \* U+2008 punctuation space
      "\\u2009",    \* U+2009 thin space
      "\\u200a",    \* U+200A hair space
      "\\u2028",    \* U+2028 line separator
      "\\u2029",    \* U+2029 paragraph separator
      "\\u202f",    \* U+202F narrow no-break space
      "\\u205f",    \* U+205F medium mathematical space
      "\\u3000" }   \* U+3000 ideographic space

\* s.startswith(prefix)
startswith(s, prefix) ==
    /\ Len(prefix) <= Len(s)
    /\ SubSeq(s, 1, Len(prefix)) = prefix

\* s.lstrip()
RECURSIVE lstrip(_)
lstrip(s) ==
    IF s # <<>> /\ Head(s) \in Whitespace THEN lstrip(Tail(s)) ELSE s

\* s.rstrip()
RECURSIVE rstrip(_)
rstrip(s) ==
    IF s # <<>> /\ s[Len(s)] \in Whitespace
    THEN rstrip(SubSeq(s, 1, Len(s) - 1))
    ELSE s

\* s.strip()
strip(s) == rstrip(lstrip(s))

\* `marker in line`: substring containment
contains(line, marker) ==
    \E i \in 0..(Len(line) - Len(marker)) :
        SubSeq(line, i + 1, i + Len(marker)) = marker

\* content.split('\n')
RECURSIVE split(_)
split(s) ==
    IF \A i \in 1..Len(s) : s[i] # "\n"
    THEN <<s>>
    ELSE LET i == CHOOSE k \in 1..Len(s) :
                      /\ s[k] = "\n"
                      /\ \A j \in 1..(k - 1) : s[j] # "\n"
         IN  <<SubSeq(s, 1, i - 1)>> \o split(SubSeq(s, i + 1, Len(s)))

\* '\n'.join(lines)
RECURSIVE join(_)
join(lines) ==
    IF lines = <<>> THEN <<>>
    ELSE IF Len(lines) = 1 THEN lines[1]
    ELSE lines[1] \o NL \o join(Tail(lines))

\* lines[lo:hi] for 0 <= lo <= hi <= len(lines) (0-based, half-open)
slice(lines, lo, hi) == SubSeq(lines, lo + 1, hi)

(***************************************************************************)
(* Literals of the source.                                                 *)
(***************************************************************************)
UseToken == <<"u", "s", "e", " ">>       \* 'use '
CommentToken == <<"/", "/">>             \* '//'

(***************************************************************************)
(* extract_imports                                                         *)
(***************************************************************************)
\* Mutant: the import test is made on the left-trimmed line.
RECURSIVE harvest_ltrim(_, _, _)
harvest_ltrim(lines, i, acc) ==
    IF i > Len(lines) THEN acc
    ELSE LET line == lines[i] IN
         IF startswith(lstrip(line), UseToken) \/ startswith(line, CommentToken)
         THEN harvest_ltrim(lines, i + 1, Append(acc, line))
         ELSE IF strip(line) # <<>> /\ ~startswith(strip(line), CommentToken)
         THEN acc
         ELSE harvest_ltrim(lines, i + 1, acc)

\* Mutant: blank lines and indented comments are kept instead of skipped.
RECURSIVE harvest_keep_blank(_, _, _)
harvest_keep_blank(lines, i, acc) ==
    IF i > Len(lines) THEN acc
    ELSE LET line == lines[i] IN
         IF startswith(line, UseToken) \/ startswith(line, CommentToken)
         THEN harvest_keep_blank(lines, i + 1, Append(acc, line))
         ELSE IF strip(line) # <<>> /\ ~startswith(strip(line), CommentToken)
         THEN acc
         ELSE harvest_keep_blank(lines, i + 1, Append(acc, line))

\* The loop of extract_imports, from line index i (1-based) with the list
\* `imports` built so far in acc.
RECURSIVE harvest(_, _, _)
harvest(lines, i, acc) ==
    IF i > Len(lines) THEN acc
    ELSE LET line == lines[i] IN
         IF startswith(line, UseToken) \/ startswith(line, CommentToken)
         THEN harvest(lines, i + 1, Append(acc, line))
         ELSE IF strip(line) # <<>> /\ ~startswith(strip(line), CommentToken)
         THEN acc
         ELSE harvest(lines, i + 1, acc)

extract_imports_ltrim(text) == join(harvest_ltrim(split(text), 1, <<>>))

extract_imports_keep_blank(text) == join(harvest_keep_blank(split(text), 1, <<>>))

\* Mutant: the loop starts at the second line.
extract_imports_skip_first(text) == join(harvest(split(text), 2, <<>>))

extract_imports(text) == join(harvest(split(text), 1, <<>>))

(***************************************************************************)
(* Inputs of the header harvester: documents of 1..MaxLines lines.         *)
(***************************************************************************)
HeaderLines ==
    { <<"u", "s", "e", " ", "a">>,          \* an import declaration
      <<" ", "u", "s", "e", " ", "a">>,     \* an indented import declaration
      <<"/", "/", "c">>,                    \* a comment line
      <<" ", "/", "/", "c">>,               \* an indented comment line
      <<>>,                                 \* an empty line
      <<" ">>,                              \* a whitespace-only line
      <<"\f">>,                             \* a form-feed-only line
      <<"f", "n", " ", "x">>,               \* code
      <<"U", "s", "e", " ", "a">> }         \* wrong case: code

SeqsUpTo(S, n) == UNION { [1..k -> S] : k \in 1..n }

HeaderDocs == { join(ls) : ls \in SeqsUpTo(HeaderLines, MaxLines) }

InitImports ==
    /\ pc = "harvest"
    /\ content \in HeaderDocs
    /\ start_marker = Unset
    /\ end_marker = Unset
    /\ section = Unset
    /\ imports = Unset
    /\ reharvested = Unset
    /\ engine_rs = Absent
    /\ engine_dir = FALSE
    /\ mod_rs = Absent
    /\ writable = FALSE
    /\ common_imports = Unset
    /\ mod_content = Unset
    /\ stdout = <<>>
    /\ steps = <<>>
    /\ runs = 0

\* imports = extract_imports(content)
Harvest ==
    /\ pc = "harvest"
    /\ imports' = extract_imports(content)
    /\ pc' = "harvested"
    /\ UNCHANGED <<content, start_marker, end_marker, section, reharvested,
                   engine_rs, engine_dir, mod_rs, writable, common_imports,
                   mod_content, stdout, steps, runs>>

\* reharvested = extract_imports(imports)
Reharvest ==
    /\ pc = "harvested"
    /\ reharvested' = extract_imports(imports)
    /\ pc' = "reharvested"
    /\ UNCHANGED <<content, start_marker, end_marker, section, imports,
                   engine_rs, engine_dir, mod_rs, writable, common_imports,
                   mod_content, stdout, steps, runs>>

NextImports == Harvest \/ Reharvest

SpecImports == InitImports /\ [][NextImports]_vars

(***************************************************************************)
(* extract_section                                                         *)
(***************************************************************************)
NoIndex == <<>>             \* start_idx / end_idx still None

\* The two scanning loops of extract_section: <<i>> for the first 0-based
\* index i >= from of a line containing marker, NoIndex when there is none.
RECURSIVE find_marker(_, _, _)
find_marker(lines, marker, from) ==
    IF from >= Len(lines) THEN NoIndex
    ELSE IF contains(lines[from + 1], marker) THEN <<from>>
    ELSE find_marker(lines, marker, from + 1)

\* Mutant: the end marker is looked for from the start line itself.
extract_section_end_from_start(text, start, end) ==
    LET lines == split(text)
        start_idx == find_marker(lines, start, 0)
    IN  IF start_idx = NoIndex THEN <<>>
        ELSE IF end = None THEN join(slice(lines, start_idx[1], Len(lines)))
        ELSE LET end_idx == find_marker(lines, end, start_idx[1])
             IN  IF end_idx = NoIndex
                 THEN join(slice(lines, start_idx[1], Len(lines)))
                 ELSE join(slice(lines, start_idx[1], end_idx[1]))

\* Mutant: a missing end marker yields the empty string.
extract_section_strict_end(text, start, end) ==
    LET lines == split(text)
        start_idx == find_marker(lines, start, 0)
    IN  IF start_idx = NoIndex THEN <<>>
        ELSE IF end = None THEN join(slice(lines, start_idx[1], Len(lines)))
        ELSE LET end_idx == find_marker(lines, end, start_idx[1] + 1)
             IN  IF end_idx = NoIndex
                 THEN <<>>
                 ELSE join(slice(lines, start_idx[1], end_idx[1]))

\* Mutant: start_idx starts at 0 instead of None.
extract_section_default_start(text, start, end) ==
    LET lines == split(text)
        found == find_marker(lines, start, 0)
        start_idx == IF found = NoIndex THEN <<0>> ELSE found
    IN  IF end = None THEN join(slice(lines, start_idx[1], Len(lines)))
        ELSE LET end_idx == find_marker(lines, end, start_idx[1] + 1)
             IN  IF end_idx = NoIndex
                 THEN join(slice(lines, start_idx[1], Len(lines)))
                 ELSE join(slice(lines, start_idx[1], end_idx[1]))

\* Mutant: the section excludes the line of the start marker.
extract_section_after_start(text, start, end) ==
    LET lines == split(text)
        start_idx == find_marker(lines, start, 0)
    IN  IF start_idx = NoIndex THEN <<>>
        ELSE IF end = None THEN join(slice(lines, start_idx[1] + 1, Len(lines)))
        ELSE LET end_idx == find_marker(lines, end, start_idx[1] + 1)
             IN  IF end_idx = NoIndex
                 THEN join(slice(lines, start_idx[1] + 1, Len(lines)))
                 ELSE join(slice(lines, start_idx[1] + 1, end_idx[1]))

extract_section(text, start, end) ==
    LET lines == split(text)
        start_idx == find_marker(lines, start, 0)
    IN  IF start_idx = NoIndex THEN <<>>
        ELSE IF end = None THEN join(slice(lines, start_idx[1], Len(lines)))
        ELSE LET end_idx == find_marker(lines, end, start_idx[1] + 1)
             IN  IF end_idx = NoIndex
                 THEN join(slice(lines, start_idx[1], Len(lines)))
                 ELSE join(slice(lines, start_idx[1], end_idx[1]))

(***************************************************************************)
(* Inputs of the section extractor: documents of 1..MaxLines lines and     *)
(* markers, the empty marker and None for the end marker included.         *)
(***************************************************************************)
SectionLines ==
    { <<>>,
      <<"S">>,
      <<"E">>,
      <<"x", "S">>,
      <<"S", "E">>,
      <<"m">> }

SectionDocs == { join(ls) : ls \in SeqsUpTo(SectionLines, MaxLines) }

Markers == { <<>>, <<"S">>, <<"E">>, <<"S", "E">>, <<"Z">> }

InitSection ==
    /\ pc = "extract"
    /\ content \in SectionDocs
    /\ start_marker \in Markers
    /\ end_marker \in Markers \cup {None}
    /\ section = Unset
    /\ imports = Unset
    /\ reharvested = Unset
    /\ engine_rs = Absent
    /\ engine_dir = FALSE
    /\ mod_rs = Absent
    /\ writable = FALSE
    /\ common_imports = Unset
    /\ mod_content = Unset
    /\ stdout = <<>>
    /\ steps = <<>>
    /\ runs = 0

\* section = extract_section(content, start_marker, end_marker)
Extract ==
    /\ pc = "extract"
    /\ section' = extract_section(content, start_marker, end_marker)
    /\ pc' = "extracted"
    /\ UNCHANGED <<content, start_marker, end_marker, imports, reharvested,
                   engine_rs, engine_dir, mod_rs, writable, common_imports,
                   mod_content, stdout, steps, runs>>

NextSection == Extract

SpecSection == InitSection /\ [][NextSection]_vars

(***************************************************************************)
(* main: literals                                                          *)
(***************************************************************************)
\* "fn spawn_worker"
FnSpawnWorker ==
    <<"f", "n", " ", "s", "p", "a", "w", "n", "_", "w", "o", "r", "k", "e", "r">>

\* "fn process_transcode_job"
FnProcessTranscodeJob ==
    <<"f", "n", " ", "p", "r", "o", "c", "e", "s", "s", "_", "t", "r", "a", "n", "s", "c", "o", "d", "e", "_", "j", "o", "b">>

\* main's literal for common_imports, line by line
CommonImports ==
    << "use std::path::{Path, PathBuf};",
       "use anyhow::{Context, Result};",
       "use crate::ffui_core::domain::*;",
       "use crate::ffui_core::settings::AppSettings;",
       "use super::state::*;",
       "" >>

\* main's literal for mod_content, line by line; the last element stands for
\* the rest of the literal (the imports and the TranscodingEngine facade)
ModContent ==
    << "//! Transcoding engine split into modular components.",
       "//!",
       "//! - state: Engine state management, queue persistence, listeners",
       "//! - worker: Worker thread pool and job scheduling",
       "//! - ffmpeg_args: FFmpeg command-line argument generation",
       "//! - job_runner: Job execution logic, progress tracking",
       "//! - smart_scan: Smart Scan batch processing",
       "//! - tests: All test cases",
       "",
       "mod state;",
       "mod worker;",
       "mod ffmpeg_args;",
       "mod job_runner;",
       "mod smart_scan;",
       "",
       "#[cfg(test)]",
       "mod tests;",
       "",
       "use std::collections::{HashMap, HashSet, VecDeque, hash_map::DefaultHasher}; ..." >>

(***************************************************************************)
(* read_file and write_file, on the two paths main uses                    *)
(***************************************************************************)
FileSystem == <<engine_rs, engine_dir, mod_rs, writable>>

\* open(path, 'r') reads in text mode with universal newlines: every "\r\n"
\* and every lone "\r" of the file is handed over as "\n"
RECURSIVE translate_newlines(_)
translate_newlines(s) ==
    IF s = <<>> THEN <<>>
    ELSE IF Head(s) = "\r"
    THEN IF Len(s) >= 2 /\ s[2] = "\n"
         THEN NL \o translate_newlines(SubSeq(s, 3, Len(s)))
         ELSE NL \o translate_newlines(Tail(s))
    ELSE <<Head(s)>> \o translate_newlines(Tail(s))

\* read_file(engine_rs) raises when the file cannot be opened (open raises)
\* or is not UTF-8 (f.read raises)
read_file_raises == engine_rs \in {Absent, NotUtf8}

\* read_file(engine_rs) returns the decoded text of the file
read_file == translate_newlines(engine_rs)

\* Mutant: the file is opened for appending.
write_file_append(text) ==
    /\ engine_dir' = TRUE
    /\ mod_rs' = IF mod_rs = Absent THEN text ELSE mod_rs \o text

\* write_file(engine_dir / 'mod.rs', text) when nothing raises: makedirs with
\* exist_ok, open with 'w' (create or truncate), write
write_file(text) ==
    /\ engine_dir' = TRUE
    /\ mod_rs' = text

\* what a write of text that fails part-way leaves in the file: the first k
\* lines, for some k < Len(text), and possibly the start of the next line
PartialWrites(text) ==
    { SubSeq(text, 1, k) : k \in 0..(Len(text) - 1) }
        \cup { Append(SubSeq(text, 1, k), Truncated) :
                    k \in { j \in 0..(Len(text) - 1) : text[j + 1] # "" } }

\* write_file when makedirs, open or write raises: nothing is undone
write_file_raises(text) ==
    \/ /\ ~engine_dir                   \* os.makedirs raises
       /\ UNCHANGED <<engine_dir, mod_rs>>
    \/ /\ engine_dir' = TRUE            \* open raises
       /\ UNCHANGED mod_rs
    \/ /\ engine_dir' = TRUE            \* f.write raises: the file was
       /\ mod_rs' \in PartialWrites(text) \* truncated by open, then partly written

(***************************************************************************)
(* main                                                                    *)
(***************************************************************************)
\* texts of engine.rs, as stored in the file
EngineDocs ==
    { join(<< <<"u", "s", "e", " ", "a">>,
              <<"f", "n", " ", "s", "p", "a", "w", "n", "_", "w", "o", "r", "k", "e", "r", "(", ")", " ", "{">>,
              <<"}">>,
              <<"f", "n", " ", "p", "r", "o", "c", "e", "s", "s", "_", "t", "r", "a", "n", "s", "c", "o", "d", "e", "_", "j", "o", "b", "(", ")", " ", "{">>,
              <<"}">> >>),
      join(<< <<"/", "/", " ", "f", "n", " ", "s", "p", "a", "w", "n", "_", "w", "o", "r", "k", "e", "r", " ", "m", "o", "v", "e", "d">>,
              <<"s", "t", "r", "u", "c", "t", " ", "I", "n", "n", "e", "r", ";">> >>),
      join(<< <<"f", "n", " ", "s", "p", "a", "w", "n", "_", "w", "o", "r", "k", "e", "r", "(", ")", " ", "{">>,
              <<"}">> >>),
      \* a file with "\r\n" line ends
      <<"f", "n", " ", "s", "p", "a", "w", "n", "_", "w", "o", "r", "k", "e", "r", "(", ")", " ", "{", "\r", "\n", "}", "\r", "\n", "f", "n", " ", "p", "r", "o", "c", "e", "s", "s", "_", "t", "r", "a", "n", "s", "c", "o", "d", "e", "_", "j", "o", "b", "(", ")", " ", "{", "\r", "\n", "}">>,
      <<>> }

\* earlier content of engine/mod.rs
OldModRs == << "// written by hand", "mod state;" >>

Init ==
    /\ pc = "main"
    /\ content = Unset
    /\ start_marker = Unset
    /\ end_marker = Unset
    /\ section = Unset
    /\ imports = Unset
    /\ reharvested = Unset
    /\ engine_rs \in EngineDocs \cup {Absent, NotUtf8}
    /\ engine_dir \in BOOLEAN
    /\ mod_rs \in {Absent, <<>>, OldModRs, ModContent,
                   Append(SubSeq(ModContent, 1, 9), Truncated)}
    /\ mod_rs # Absent => engine_dir
    /\ writable \in BOOLEAN
    /\ common_imports = Unset
    /\ mod_content = Unset
    /\ stdout = <<>>
    /\ steps = <<>>
    /\ runs = 0

\* Mutant: the output directory is created before the source is read.
Main_ReadFile_mkdir_first ==
    /\ pc = "main"
    /\ stdout' = Append(stdout, "Reading engine.rs...")
    /\ steps' = Append(steps, "read")
    /\ engine_dir' = TRUE
    /\ IF read_file_raises
       THEN /\ pc' = "raised"
            /\ UNCHANGED content
       ELSE /\ pc' = "read"
            /\ content' = read_file
    /\ UNCHANGED <<start_marker, end_marker, section, imports, reharvested,
                   engine_rs, mod_rs, writable, common_imports, mod_content,
                   runs>>

\* print(f"Reading {engine_rs}..."); content = read_file(engine_rs)
Main_ReadFile ==
    /\ pc = "main"
    /\ stdout' = Append(stdout, "Reading engine.rs...")
    /\ steps' = Append(steps, "read")
    /\ IF read_file_raises
       THEN /\ pc' = "raised"
            /\ UNCHANGED content
       ELSE /\ pc' = "read"
            /\ content' = read_file
    /\ UNCHANGED <<start_marker, end_marker, section, imports, reharvested,
                   engine_rs, engine_dir, mod_rs, writable, common_imports,
                   mod_content, runs>>

\* common_imports = """..."""
Main_CommonImports ==
    /\ pc = "read"
    /\ common_imports' = CommonImports
    /\ pc' = "common_imports"
    /\ UNCHANGED <<content, start_marker, end_marker, section, imports,
                   reharvested, engine_rs, engine_dir, mod_rs, writable,
                   mod_content, stdout, steps, runs>>

\* Mutant: the header of the source is harvested before the section is
\* extracted.
Main_ExtractSection_harvesting ==
    /\ pc = "common_imports"
    /\ imports' = extract_imports(content)
    /\ start_marker' = FnSpawnWorker
    /\ end_marker' = FnProcessTranscodeJob
    /\ section' = extract_section(content, FnSpawnWorker, FnProcessTranscodeJob)
    /\ steps' = steps \o <<"extract_imports", "extract_section">>
    /\ pc' = "section"
    /\ UNCHANGED <<content, reharvested, engine_rs, engine_dir, mod_rs,
                   writable, common_imports, mod_content, stdout, runs>>

\* worker_section = extract_section(content, "fn spawn_worker",
\*                                  "fn process_transcode_job")
Main_ExtractSection ==
    /\ pc = "common_imports"
    /\ start_marker' = FnSpawnWorker
    /\ end_marker' = FnProcessTranscodeJob
    /\ section' = extract_section(content, FnSpawnWorker, FnProcessTranscodeJob)
    /\ steps' = Append(steps, "extract_section")
    /\ pc' = "section"
    /\ UNCHANGED <<content, imports, reharvested, engine_rs, engine_dir,
                   mod_rs, writable, common_imports, mod_content, stdout,
                   runs>>

\* print(f"Creating engine/mod.rs..."); mod_content = """..."""
Main_Render ==
    /\ pc = "section"
    /\ stdout' = Append(stdout, "Creating engine/mod.rs...")
    /\ mod_content' = ModContent
    /\ steps' = Append(steps, "render")
    /\ pc' = "rendered"
    /\ UNCHANGED <<content, start_marker, end_marker, section, imports,
                   reharvested, engine_rs, engine_dir, mod_rs, writable,
                   common_imports, runs>>

\* write_file(engine_dir / 'mod.rs', mod_content) returns
Main_WriteFile ==
    /\ pc = "rendered"
    /\ writable
    /\ write_file(mod_content)
    /\ steps' = Append(steps, "write")
    /\ pc' = "written"
    /\ UNCHANGED <<content, start_marker, end_marker, section, imports,
                   reharvested, engine_rs, writable, common_imports,
                   mod_content, stdout, runs>>

\* write_file(engine_dir / 'mod.rs', mod_content) raises
Main_WriteFileRaises ==
    /\ pc = "rendered"
    /\ ~writable
    /\ write_file_raises(mod_content)
    /\ steps' = Append(steps, "write")
    /\ pc' = "raised"
    /\ UNCHANGED <<content, start_marker, end_marker, section, imports,
                   reharvested, engine_rs, writable, common_imports,
                   mod_content, stdout, runs>>

\* the three print calls that end main
Main_Return ==
    /\ pc = "written"
    /\ stdout' = stdout \o
            << "Created engine/mod.rs",
               "Manual splitting required due to file complexity.",
               "Please continue with manual file extraction or use a proper AST parser." >>
    /\ pc' = "done"
    /\ UNCHANGED <<content, start_marker, end_marker, section, imports,
                   reharvested, engine_rs, engine_dir, mod_rs, writable,
                   common_imports, mod_content, steps, runs>>

\* the script is run again: a new process, its locals and output fresh
RunAgain ==
    /\ pc \in {"done", "raised"}
    /\ runs + 1 < MaxRuns
    /\ runs' = runs + 1
    /\ pc' = "main"
    /\ content' = Unset
    /\ start_marker' = Unset
    /\ end_marker' = Unset
    /\ section' = Unset
    /\ common_imports' = Unset
    /\ mod_content' = Unset
    /\ stdout' = <<>>
    /\ steps' = <<>>
    /\ UNCHANGED <<imports, reharvested, engine_rs, engine_dir, mod_rs,
                   writable>>

Next ==
    \/ Main_ReadFile
    \/ Main_CommonImports
    \/ Main_ExtractSection
    \/ Main_Render
    \/ Main_WriteFile
    \/ Main_WriteFileRaises
    \/ Main_Return
    \/ RunAgain

Spec == Init /\ [][Next]_vars

(***************************************************************************)
(* Vocabulary of the claims about the header harvester.                    *)
(***************************************************************************)
Lines == split(content)

IsBlank(line) == strip(line) = <<>>

IsComment(line) == startswith(strip(line), CommentToken)

\* an import declaration: the raw line begins with 'use '
IsImportDecl(line) == startswith(line, UseToken)

\* an import declaration, were the line left-trimmed before the test
IsImportDeclTrimmed(line) == startswith(lstrip(line), UseToken)

\* a line the harvester keeps: it begins with 'use ' or with '//'
IsKept(line) == startswith(line, UseToken) \/ startswith(line, CommentToken)

Terminates(line) == ~IsBlank(line) /\ ~IsComment(line) /\ ~IsImportDecl(line)

TerminatesTrimmed(line) ==
    ~IsBlank(line) /\ ~IsComment(line) /\ ~IsImportDeclTrimmed(line)

\* 1-based index of the first terminating line, Len(Lines) + 1 when none
TermIdx ==
    IF \E i \in 1..Len(Lines) : Terminates(Lines[i])
    THEN CHOOSE i \in 1..Len(Lines) :
            /\ Terminates(Lines[i])
            /\ \A j \in 1..(i - 1) : ~Terminates(Lines[j])
    ELSE Len(Lines) + 1

TermIdxTrimmed ==
    IF \E i \in 1..Len(Lines) : TerminatesTrimmed(Lines[i])
    THEN CHOOSE i \in 1..Len(Lines) :
            /\ TerminatesTrimmed(Lines[i])
            /\ \A j \in 1..(i - 1) : ~TerminatesTrimmed(Lines[j])
    ELSE Len(Lines) + 1

Harvested == pc \in {"harvested", "reharvested"}

(***************************************************************************)
(* C5 (as stated): a line is an import declaration when it begins with     *)
(* 'use ' after left-trimming; the import declarations of the harvested    *)
(* header are exactly those found before the first line that is non-empty, *)
(* not a comment and not an import declaration.                            *)
(***************************************************************************)
C5_AsStated ==
    Harvested =>
        SelectSeq(split(imports), IsImportDeclTrimmed)
            = SelectSeq(SubSeq(Lines, 1, TermIdxTrimmed - 1), IsImportDeclTrimmed)

(***************************************************************************)
(* C5 (amended): a line is an import declaration when the raw line begins  *)
(* with 'use ' (no left-trimming, case-sensitive).  Every such line before *)
(* the terminating line is in the header with its original text and does   *)
(* not end the scan; the scan ends only at the first line that is          *)
(* non-blank, not a comment and not an import declaration, so an indented  *)
(* 'use ' line ends it.                                                    *)
(***************************************************************************)
C5_ImportLinesBeforeTerminator ==
    Harvested =>
        SelectSeq(split(imports), IsImportDecl)
            = SelectSeq(SubSeq(Lines, 1, TermIdx - 1), IsImportDecl)

\* an import before the terminator, and an indented 'use ' line ending the scan
C5_Witness ==
    /\ pc = "harvested"
    /\ TermIdx <= Len(Lines)
    /\ IsImportDeclTrimmed(Lines[TermIdx])
    /\ \E i \in 1..(TermIdx - 1) : IsImportDecl(Lines[i])
    /\ \E i \in 1..(TermIdx - 1) : IsBlank(Lines[i])

(***************************************************************************)
(* C6 (as stated): when every line is blank, a comment line or an import   *)
(* declaration, extract_imports returns the entire document.               *)
(***************************************************************************)
C6_AsStated ==
    (Harvested /\ \A i \in 1..Len(Lines) : ~TerminatesTrimmed(Lines[i]))
        => imports = content

(***************************************************************************)
(* C6 (amended): when no line terminates the scan, extract_imports returns *)
(* exactly the lines that begin with 'use ' or '//', in their original     *)
(* order and with their original text, joined with '\n'; blank lines and   *)
(* indented comment lines are dropped, so the header is a subsequence of   *)
(* the document's lines and not always the entire document.                *)
(***************************************************************************)
C6_KeptLinesOfUnterminatedDocument ==
    (Harvested /\ \A i \in 1..Len(Lines) : ~Terminates(Lines[i]))
        => imports = join(SelectSeq(Lines, IsKept))

\* an unterminated document from which a blank line between two kept lines
\* is dropped
C6_Witness ==
    /\ pc = "harvested"
    /\ \A i \in 1..Len(Lines) : ~Terminates(Lines[i])
    /\ Len(Lines) = 3
    /\ IsKept(Lines[1]) /\ IsBlank(Lines[2]) /\ IsKept(Lines[3])
    /\ imports # content

(***************************************************************************)
(* C7: the header harvester is idempotent:                                 *)
(* extract_imports(extract_imports(d)) = extract_imports(d).               *)
(***************************************************************************)
C7_Idempotent == pc = "reharvested" => reharvested = imports

\* a second harvest of a header that differs from its document
C7_Witness ==
    /\ pc = "reharvested"
    /\ imports # content
    /\ Len(split(imports)) >= 2
    /\ reharvested = imports

(***************************************************************************)
(* Vocabulary of the claims about the section extractor (1-based indices). *)
(***************************************************************************)
HasStart == \E i \in 1..Len(Lines) : contains(Lines[i], start_marker)

\* the first line containing start_marker
StartLine ==
    CHOOSE i \in 1..Len(Lines) :
        /\ contains(Lines[i], start_marker)
        /\ \A j \in 1..(i - 1) : ~contains(Lines[j], start_marker)

HasEndAfterStart ==
    /\ end_marker # None
    /\ \E i \in (StartLine + 1)..Len(Lines) : contains(Lines[i], end_marker)

\* the first line after StartLine containing end_marker
EndLine ==
    CHOOSE i \in (StartLine + 1)..Len(Lines) :
        /\ contains(Lines[i], end_marker)
        /\ \A j \in (StartLine + 1)..(i - 1) : ~contains(Lines[j], end_marker)

(***************************************************************************)
(* C1: with start_marker on some line and end_marker on some later line,   *)
(* extract_section returns the lines [start_idx, end_idx) joined with      *)
(* '\n', start_idx the first line containing start_marker and end_idx the  *)
(* first line after start_idx containing end_marker.                       *)
(***************************************************************************)
C1_HalfOpenRange ==
    (pc = "extracted" /\ HasStart /\ HasEndAfterStart)
        => section = join(SubSeq(Lines, StartLine, EndLine - 1))

\* the end marker also occurs on the start line and on an earlier line
C1_Witness ==
    /\ pc = "extracted"
    /\ HasStart
    /\ HasEndAfterStart
    /\ StartLine > 1
    /\ contains(Lines[StartLine], end_marker)
    /\ contains(Lines[1], end_marker)
    /\ start_marker # <<>>
    /\ end_marker # <<>>
    /\ section = Lines[StartLine]

(***************************************************************************)
(* C2: with start_marker on some line and end_marker None or on no later   *)
(* line, extract_section returns the lines from start_idx to the end of    *)
(* the document joined with '\n': the same result as with no end marker.   *)
(***************************************************************************)
C2_RestOfDocument ==
    (pc = "extracted" /\ HasStart /\ ~HasEndAfterStart)
        => /\ section = join(SubSeq(Lines, StartLine, Len(Lines)))
           /\ section = extract_section(content, start_marker, None)

\* an end marker that occurs only on or before the start line
C2_Witness ==
    /\ pc = "extracted"
    /\ HasStart
    /\ end_marker # None
    /\ ~HasEndAfterStart
    /\ contains(Lines[StartLine], end_marker)
    /\ 1 < StartLine /\ StartLine < Len(Lines)
    /\ section = join(SubSeq(Lines, StartLine, Len(Lines)))

(***************************************************************************)
(* C3: when no line contains start_marker, extract_section returns the     *)
(* empty string, whatever end_marker is.                                   *)
(***************************************************************************)
C3_MissingStartIsEmpty ==
    (pc = "extracted" /\ ~HasStart) => section = <<>>

\* the start marker is missing and the end marker occurs in the document
C3_Witness ==
    /\ pc = "extracted"
    /\ ~HasStart
    /\ end_marker # None
    /\ \E i \in 1..Len(Lines) : contains(Lines[i], end_marker)
    /\ content # <<>>
    /\ section = <<>>

(***************************************************************************)
(* C4 (as stated): extract_section returns the empty string only if no     *)
(* line contains start_marker.                                             *)
(***************************************************************************)
C4_AsStated ==
    (pc = "extracted" /\ section = <<>>) => ~HasStart

(***************************************************************************)
(* C4 (amended): for every non-empty start_marker, extract_section returns *)
(* the empty string only if no line contains start_marker.  (The empty     *)
(* start_marker is contained in every line, the empty first line too, and  *)
(* the section of an empty first line alone is the empty string.)          *)
(***************************************************************************)
C4_EmptyMeansNotFound ==
    (pc = "extracted" /\ start_marker # <<>> /\ section = <<>>) => ~HasStart

\* a non-empty start marker that is missing: the result is empty
C4_Witness ==
    /\ pc = "extracted"
    /\ start_marker # <<>>
    /\ section = <<>>
    /\ ~HasStart
    /\ Len(Lines) >= 2

(***************************************************************************)
(* Vocabulary of the claims about main.                                    *)
(***************************************************************************)
Range(seq) == { seq[i] : i \in 1..Len(seq) }

SubmoduleDeclarations ==
    { "mod state;", "mod worker;", "mod ffmpeg_args;", "mod job_runner;",
      "mod smart_scan;" }

(***************************************************************************)
(* C8 (as stated): in every successful run of main the steps are, once     *)
(* each and in this order: read the source, harvest the header, extract    *)
(* the section, render the manifest, write the manifest.                   *)
(***************************************************************************)
C8_AsStated ==
    pc = "done" =>
        steps = <<"read", "extract_imports", "extract_section", "render", "write">>

(***************************************************************************)
(* C8 (amended): in every successful run of main the steps are, once each  *)
(* and in this order: read the source file, extract the named section,     *)
(* render the manifest, write the manifest to the destination.  The header *)
(* harvester is never invoked by main: common_imports is a literal.        *)
(***************************************************************************)
C8_StepsInOrder ==
    /\ pc = "done" => steps = <<"read", "extract_section", "render", "write">>
    /\ "extract_imports" \notin Range(steps)
    /\ imports = Unset

\* a successful run that extracted a non-empty section
C8_Witness ==
    /\ pc = "done"
    /\ Len(steps) = 4
    /\ section # <<>>
    /\ section # content
    /\ mod_rs = ModContent

(***************************************************************************)
(* C9: if reading the source file fails, the run ends with the error       *)
(* raised after that single read, and nothing later happens: no directory  *)
(* is created, the destination is neither created nor modified, the file   *)
(* system stays as it was before the run.                                  *)
(***************************************************************************)
C9_ReadFailureTouchesNothing ==
    /\ [](read_file_raises =>
            /\ pc \in {"main", "raised"}
            /\ pc = "raised" => (steps = <<"read">> /\ content = Unset)
            /\ mod_content = Unset)
    /\ [][read_file_raises => UNCHANGED FileSystem]_vars

\* a run that raised in read_file, the destination directory still missing
C9_Witness ==
    /\ pc = "raised"
    /\ engine_rs = Absent
    /\ steps = <<"read">>
    /\ ~engine_dir
    /\ mod_rs = Absent
    /\ writable

(***************************************************************************)
(* C10: with the source readable and the destination writable, whatever    *)
(* the directory and the destination file were before, a run does not      *)
(* raise and ends with the directory existing and the destination holding  *)
(* exactly the rendered manifest, which is non-empty and declares the      *)
(* submodules state, worker, ffmpeg_args, job_runner, smart_scan; a second *)
(* run ends in the same state.                                             *)
(***************************************************************************)
C10_ManifestWritten ==
    (~read_file_raises /\ writable) =>
        /\ pc # "raised"
        /\ pc \in {"written", "done"} =>
              /\ engine_dir
              /\ mod_rs = ModContent
              /\ mod_rs # <<>>
              /\ SubmoduleDeclarations \subseteq Range(mod_rs)

\* the end of a second run
C10_Witness ==
    /\ pc = "done"
    /\ runs = 1
    /\ engine_dir
    /\ mod_rs = ModContent

====
